---- MODULE Spec2Model ----
(***************************************************************************)
(* Model of pyip (src/pyip.py): Converter, IPAddress, IPNetwork, IPRange.  *)
(*                                                                         *)
(* The interpreter is Python 3 (the module catches OSError from            *)
(* socket.inet_pton, the Python 3 exception of that call); the name `long` *)
(* of line 63 is not defined there and evaluating it raises NameError.     *)
(*                                                                         *)
(* Address widths are scaled: BitV4 bits stand for the 32 bits of IPv4 and *)
(* BitV6 bits for the 128 bits of IPv6, QBits for the 64 bits of one '!Q'  *)
(* field.  A textual address is a tagged sequence of binary digits, most   *)
(* significant first: fam = 4 is the dotted syntax, fam = 6 the colon one. *)
(***************************************************************************)
EXTENDS Integers, Sequences, FiniteSets, TLC

BitV4 == 2
BitV6 == 3
MaxIdx == 3
MaxStep == 2
PrefixSlack == 1

QBits == BitV6 \div 2

RECURSIVE Pow2(_)
Pow2(n) == IF n <= 0 THEN 1 ELSE 2 * Pow2(n - 1)

v4_MAX == Pow2(BitV4) - 1
v6_MAX == Pow2(BitV6) - 1

(* Python's >> and << on non-negative integers, and | *)
Shr(x, n) == x \div Pow2(n)
Shl(x, n) == x * Pow2(n)

RECURSIVE BitOr(_, _)
BitOr(a, b) ==
    IF a = 0 THEN b
    ELSE IF b = 0 THEN a
    ELSE (IF a % 2 = 1 \/ b % 2 = 1 THEN 1 ELSE 0) + 2 * BitOr(a \div 2, b \div 2)

BitAnd(a, m) == a % (m + 1)   \* m = 2^k - 1

(***************************************************************************)
(* Python values                                                           *)
(***************************************************************************)
NoText == [fam |-> 0, groups |-> <<>>]
IntVal(n) == [form |-> "int", num |-> n, txt |-> NoText]
StrVal(t) == [form |-> "str", num |-> 0, txt |-> t]

Ok(v) == [err |-> "", val |-> v]
Raise(e) == [err |-> e, val |-> 0]

RECURSIVE Digits(_, _)
Digits(x, n) == IF n = 0 THEN <<>> ELSE Append(Digits(x \div 2, n - 1), x % 2)

RECURSIVE Value(_)
Value(s) == IF s = <<>> THEN 0 ELSE 2 * Value(SubSeq(s, 1, Len(s) - 1)) + s[Len(s)]

V4Texts == {[fam |-> 4, groups |-> Digits(x, BitV4)] : x \in 0..v4_MAX}
V6Texts == {[fam |-> 6, groups |-> Digits(x, BitV6)] : x \in 0..v6_MAX}
Texts == V4Texts \cup V6Texts

(***************************************************************************)
(* class Converter                                                         *)
(***************************************************************************)
get_version(ip) ==
    IF ip.form = "int"
    THEN (IF 0 <= ip.num /\ ip.num <= v4_MAX THEN 4 ELSE 6)
    ELSE (IF ip.txt.fam = 4 THEN 4 ELSE 6)

v4_to_int(ip) ==
    IF ip.fam = 4 /\ Len(ip.groups) = BitV4
    THEN Ok(Value(ip.groups))
    ELSE Raise("ValueError")

v6_to_int(ip) ==
    IF ip.fam = 6 /\ Len(ip.groups) = BitV6
    THEN LET hi == Value(SubSeq(ip.groups, 1, BitV6 - QBits))
             lo == Value(SubSeq(ip.groups, BitV6 - QBits + 1, BitV6))
         IN  Ok(BitOr(Shl(hi, QBits), lo))
    ELSE Raise("ValueError")

int_to_v4(int_) ==
    IF int_ < 0 \/ int_ > v4_MAX
    THEN [err |-> "struct.error", txt |-> NoText]
    ELSE [err |-> "", txt |-> [fam |-> 4, groups |-> Digits(int_, BitV4)]]

int_to_v6(int_) ==
    LET hi == Shr(int_, QBits)
        lo == BitAnd(int_, Pow2(QBits) - 1)
    IN  IF int_ < 0 \/ hi > Pow2(BitV6 - QBits) - 1
        THEN [err |-> "struct.error", txt |-> NoText]
        ELSE [err |-> "", txt |-> [fam |-> 6,
                 groups |-> Digits(hi, BitV6 - QBits) \o Digits(lo, QBits)]]

to_int(version, ip) == IF version = 4 THEN v4_to_int(ip) ELSE v6_to_int(ip)
to_addr(version, int_) == IF version = 4 THEN int_to_v4(int_) ELSE int_to_v6(int_)

(***************************************************************************)
(* class IPAddress.  version = 0 stands for the default version=None.  An  *)
(* object carries oid, its identity: the class defines no __eq__, so == is *)
(* Python's default comparison of identities.                              *)
(***************************************************************************)
NoAddress == [ip |-> IntVal(0), version |-> 0, oid |-> 0]

IPAddress(ip, version, oid) ==
    LET v == IF version # 0 THEN version ELSE get_version(ip)
    IN  IF v = 4
        THEN [err |-> "", obj |-> [ip |-> ip, version |-> v, oid |-> oid]]
        ELSE [err |-> "NameError", obj |-> NoAddress]

IPAddress_int(self) ==
    IF self.ip.form = "str" THEN to_int(self.version, self.ip.txt) ELSE Ok(self.ip.num)

IPAddress_str(self) ==
    IF self.ip.form = "int"
    THEN to_addr(self.version, self.ip.num)
    ELSE [err |-> "", txt |-> self.ip.txt]

IPAddress_eq(a, b) == a.oid = b.oid

(***************************************************************************)
(* class IPNetwork.  network = [slash, ip, cidr]: the text "ip/cidr", or   *)
(* the text ip alone when slash is FALSE.                                  *)
(***************************************************************************)
NoRange == [cls |-> "none", version |-> 0, lo |-> 0, hi |-> 0]
Failed(e) == [err |-> e, obj |-> NoRange]

(* IPNetwork_expand with the "- 1" of line 146 dropped *)
IPNetwork_expand_NoMinusOne(network, version, bit) ==
    IF network.cidr > bit
    THEN [err |-> "ValueError", lo |-> 0, hi |-> 0]
    ELSE LET bits == bit - network.cidr
             ip == to_int(version, network.ip)
             lo == Shl(Shr(ip.val, bits), bits)
             hi == BitOr(lo, Shl(1, bits))
         IN  IF ip.err # ""
             THEN [err |-> ip.err, lo |-> 0, hi |-> 0]
             ELSE [err |-> "", lo |-> lo, hi |-> hi]

IPNetwork_expand(network, version, bit) ==
    IF network.cidr > bit
    THEN [err |-> "ValueError", lo |-> 0, hi |-> 0]
    ELSE LET bits == bit - network.cidr
             ip == to_int(version, network.ip)
             lo == Shl(Shr(ip.val, bits), bits)
             hi == BitOr(lo, Shl(1, bits) - 1)
         IN  IF ip.err # ""
             THEN [err |-> ip.err, lo |-> 0, hi |-> 0]
             ELSE [err |-> "", lo |-> lo, hi |-> hi]

IPNetwork(network, version) ==
    IF ~network.slash
    THEN Failed("AttributeError")
    ELSE LET v == IF version # 0 THEN version ELSE get_version(StrVal(network.ip))
             bit == IF v = 4 THEN BitV4 ELSE BitV6
             range == IPNetwork_expand(network, v, bit)
         IN  IF range.err # ""
             THEN Failed(range.err)
             ELSE [err |-> "",
                   obj |-> [cls |-> "IPNetwork", version |-> v,
                            lo |-> range.lo, hi |-> range.hi]]

(***************************************************************************)
(* class IPRange.  An optional argument is <<>> (None) or <<value>>;       *)
(* range_ = [dash, start, end]: the text "start-end", or start alone.      *)
(***************************************************************************)
IPRange_expand(range_, version) ==
    LET lo == to_int(version, range_.start)
        hi == to_int(version, range_.end)
    IN  IF lo.err # "" THEN [err |-> lo.err, lo |-> 0, hi |-> 0]
        ELSE IF hi.err # "" THEN [err |-> hi.err, lo |-> 0, hi |-> 0]
        ELSE IF hi.val < lo.val THEN [err |-> "ValueError", lo |-> 0, hi |-> 0]
        ELSE [err |-> "", lo |-> lo.val, hi |-> hi.val]

HasDot(range_) == range_.start.fam = 4 \/ (range_.dash /\ range_.end.fam = 4)

IPRange(range_, start, stop, version) ==
    LET v == IF version # 0 THEN version
             ELSE IF range_ # <<>> THEN (IF HasDot(range_[1]) THEN 4 ELSE 6)
             ELSE IF start # <<>> THEN get_version(StrVal(start[1]))
             ELSE 4
    IN  IF range_ # <<>>
        THEN IF ~range_[1].dash
             THEN Failed("AttributeError")
             ELSE LET range == IPRange_expand(range_[1], v)
                  IN  IF range.err # ""
                      THEN Failed(range.err)
                      ELSE [err |-> "",
                            obj |-> [cls |-> "IPRange", version |-> v,
                                     lo |-> range.lo, hi |-> range.hi]]
        ELSE IF start # <<>> /\ stop # <<>>
        THEN LET lo == to_int(v, start[1])
                 hi == to_int(v, stop[1])
             IN  IF lo.err # "" THEN Failed(lo.err)
                 ELSE IF hi.err # "" THEN Failed(hi.err)
                 ELSE [err |-> "",
                       obj |-> [cls |-> "IPRange", version |-> v,
                                lo |-> lo.val, hi |-> hi.val]]
        ELSE Failed("ValueError")

(***************************************************************************)
(* Python builtins used by __getitem__: slice.indices(length) and          *)
(* range(start, stop, step).  A slice is [start, stop, step], each <<>>    *)
(* (omitted) or <<n>>.                                                      *)
(***************************************************************************)
slice_indices(sl, length) ==
    LET step == IF sl.step = <<>> THEN 1 ELSE sl.step[1]
        lower == IF step < 0 THEN -1 ELSE 0
        upper == IF step < 0 THEN length - 1 ELSE length
        Bound(v) == IF v < 0
                    THEN (IF v + length < lower THEN lower ELSE v + length)
                    ELSE (IF v > upper THEN upper ELSE v)
        start == IF sl.start = <<>>
                 THEN (IF step < 0 THEN upper ELSE lower)
                 ELSE Bound(sl.start[1])
        stop == IF sl.stop = <<>>
                THEN (IF step < 0 THEN lower ELSE upper)
                ELSE Bound(sl.stop[1])
    IN  IF length < 0 \/ step = 0
        THEN [err |-> "ValueError", start |-> 0, stop |-> 0, step |-> 0]
        ELSE [err |-> "", start |-> start, stop |-> stop, step |-> step]

RECURSIVE range(_, _, _)
range(start, stop, step) ==
    IF (step > 0 /\ start >= stop) \/ (step < 0 /\ start <= stop)
    THEN <<>>
    ELSE <<start>> \o range(start + step, stop, step)

(* [IPAddress(x, version) for x in xs]: the first failing construction     *)
(* raises out of the comprehension.                                         *)
AddressList(xs, version) ==
    LET made == [k \in 1..Len(xs) |-> IPAddress(IntVal(xs[k]), version, k)]
    IN  IF \E k \in 1..Len(xs) : made[k].err # ""
        THEN [err |-> made[CHOOSE k \in 1..Len(xs) :
                            made[k].err # "" /\ \A j \in 1..(k - 1) : made[j].err = ""].err,
              items |-> <<>>]
        ELSE [err |-> "", items |-> [k \in 1..Len(xs) |-> made[k].obj]]

(***************************************************************************)
(* IPNetwork: __len__, __contains__, __getitem__                           *)
(* A candidate of __contains__ is [kind, obj]: an IPAddress object, or a   *)
(* raw int or str held in obj.ip.  An index is [kind, i, sl].              *)
(***************************************************************************)
IPNetwork_len(self) == (self.hi + 1) - self.lo

IPNetwork_contains(self, ip) ==
    LET v == IF ip.kind = "IPAddress" THEN IPAddress_int(ip.obj)
             ELSE IF ip.obj.ip.form # "int" THEN to_int(self.version, ip.obj.ip.txt)
             ELSE Ok(ip.obj.ip.num)
    IN  IF v.err # ""
        THEN [err |-> v.err, flag |-> FALSE]
        ELSE [err |-> "", flag |-> self.lo <= v.val /\ v.val <= self.hi]

(* IPNetwork.__getitem__ with "step > stop" of line 111 written "step >= stop" *)
IPNetwork_getitem_StepGeStop(self, index) ==
    IF index.kind = "slice"
    THEN LET ind == slice_indices(index.sl, IPNetwork_len(self))
         IN  IF ind.err # ""
             THEN [err |-> ind.err, items |-> <<>>]
             ELSE IF (ind.start + ind.step < 0) \/ (ind.step >= ind.stop)
             THEN AddressList(<<self.lo>>, self.version)
             ELSE AddressList(range(self.lo + ind.start, self.lo + ind.stop, ind.step),
                              self.version)
    ELSE IF -IPNetwork_len(self) <= index.i /\ index.i < 0
    THEN AddressList(<<self.hi + index.i + 1>>, self.version)
    ELSE IF 0 <= index.i /\ index.i <= IPNetwork_len(self) - 1
    THEN AddressList(<<self.lo + index.i>>, self.version)
    ELSE [err |-> "IndexError", items |-> <<>>]

IPNetwork_getitem(self, index) ==
    IF index.kind = "slice"
    THEN LET ind == slice_indices(index.sl, IPNetwork_len(self))
         IN  IF ind.err # ""
             THEN [err |-> ind.err, items |-> <<>>]
             ELSE IF (ind.start + ind.step < 0) \/ (ind.step > ind.stop)
             THEN AddressList(<<self.lo>>, self.version)
             ELSE AddressList(range(self.lo + ind.start, self.lo + ind.stop, ind.step),
                              self.version)
    ELSE IF -IPNetwork_len(self) <= index.i /\ index.i < 0
    THEN AddressList(<<self.hi + index.i + 1>>, self.version)
    ELSE IF 0 <= index.i /\ index.i <= IPNetwork_len(self) - 1
    THEN AddressList(<<self.lo + index.i>>, self.version)
    ELSE [err |-> "IndexError", items |-> <<>>]

(***************************************************************************)
(* IPRange: __len__, __contains__, __getitem__                             *)
(***************************************************************************)
IPRange_len(self) == (self.hi + 1) - self.lo

IPRange_contains(self, ip) ==
    LET v == IF ip.kind = "IPAddress" THEN IPAddress_int(ip.obj)
             ELSE IF ip.obj.ip.form # "int" THEN to_int(self.version, ip.obj.ip.txt)
             ELSE Ok(ip.obj.ip.num)
    IN  IF v.err # ""
        THEN [err |-> v.err, flag |-> FALSE]
        ELSE [err |-> "", flag |-> self.lo <= v.val /\ v.val <= self.hi]

IPRange_getitem(self, index) ==
    IF index.kind = "slice"
    THEN LET ind == slice_indices(index.sl, IPRange_len(self))
         IN  IF ind.err # ""
             THEN [err |-> ind.err, items |-> <<>>]
             ELSE IF (ind.start + ind.step < 0) \/ (ind.step > ind.stop)
             THEN AddressList(<<self.lo>>, self.version)
             ELSE AddressList(range(self.lo + ind.start, self.lo + ind.stop, ind.step),
                              self.version)
    ELSE IF -IPRange_len(self) <= index.i /\ index.i < 0
    THEN AddressList(<<self.hi + index.i + 1>>, self.version)
    ELSE IF 0 <= index.i /\ index.i <= IPRange_len(self) - 1
    THEN AddressList(<<self.lo + index.i>>, self.version)
    ELSE [err |-> "IndexError", items |-> <<>>]

(* dispatch on the object's class *)
len(self) == IF self.cls = "IPNetwork" THEN IPNetwork_len(self) ELSE IPRange_len(self)
contains(self, ip) ==
    IF self.cls = "IPNetwork" THEN IPNetwork_contains(self, ip) ELSE IPRange_contains(self, ip)
getitem(self, index) ==
    IF self.cls = "IPNetwork" THEN IPNetwork_getitem(self, index) ELSE IPRange_getitem(self, index)

(***************************************************************************)
(* iter_: one resumption of the generator g over self.  The locals start,  *)
(* stop and index are set when the body first runs; out is what was        *)
(* yielded so far.                                                         *)
(***************************************************************************)
IPNetwork_iter_(self, g) ==
    LET start == IF g.pc = "created" THEN self.lo ELSE g.start
        stop == IF g.pc = "created" THEN self.hi ELSE g.stop
        index == IF g.pc = "created" THEN 0 ELSE g.index
        ip == start + index
        a == IPAddress(IntVal(ip), self.version, Len(g.out) + 1)
    IN  IF ip > stop
        THEN [g EXCEPT !.pc = "done", !.start = start, !.stop = stop, !.index = index + 1]
        ELSE IF a.err # ""
        THEN [g EXCEPT !.pc = "raised", !.start = start, !.stop = stop,
                       !.index = index + 1, !.err = a.err]
        ELSE [g EXCEPT !.pc = "running", !.start = start, !.stop = stop,
                       !.index = index + 1, !.out = Append(g.out, a.obj)]

IPRange_iter_(self, g) ==
    LET start == IF g.pc = "created" THEN self.lo ELSE g.start
        stop == IF g.pc = "created" THEN self.hi ELSE g.stop
        index == IF g.pc = "created" THEN 0 ELSE g.index
        ip == start + index
        a == IPAddress(IntVal(ip), self.version, Len(g.out) + 1)
    IN  IF ip > stop
        THEN [g EXCEPT !.pc = "done", !.start = start, !.stop = stop, !.index = index + 1]
        ELSE IF a.err # ""
        THEN [g EXCEPT !.pc = "raised", !.start = start, !.stop = stop,
                       !.index = index + 1, !.err = a.err]
        ELSE [g EXCEPT !.pc = "running", !.start = start, !.stop = stop,
                       !.index = index + 1, !.out = Append(g.out, a.obj)]

iter_(self, g) ==
    IF self.cls = "IPNetwork" THEN IPNetwork_iter_(self, g) ELSE IPRange_iter_(self, g)

(***************************************************************************)
(* State.  One Range object is followed from its construction:             *)
(*   rng   the constructed IPNetwork or IPRange (NoRange before that)      *)
(*   last  the call the caller made last, with its arguments and outcome;  *)
(*         the caller makes one call at a time and takes its outcome       *)
(*   its   the generators obtained from iter_() at two call sites          *)
(***************************************************************************)
VARIABLES rng, last, its

vars == <<rng, last, its>>

NoNetwork == [slash |-> FALSE, ip |-> NoText, cidr |-> 0]
NoSlice == [start |-> <<>>, stop |-> <<>>, step |-> <<>>]
NoIndex == [kind |-> "none", i |-> 0, sl |-> NoSlice]
NoCand == [kind |-> "none", obj |-> NoAddress]
NoCall == [op |-> "none", err |-> "", network |-> NoNetwork, range_ |-> <<>>,
           start |-> <<>>, stop |-> <<>>, version |-> 0, index |-> NoIndex,
           ip |-> NoCand, items |-> <<>>, other |-> NoAddress, same |-> FALSE,
           flag |-> FALSE, num |-> 0, txt |-> NoText, serr |-> "", ierr |-> ""]

Sites == {1, 2}
NoIter == [pc |-> "none", start |-> 0, stop |-> 0, index |-> 0, out |-> <<>>, err |-> ""]

(* inputs *)
Versions == {0, 4, 6}
Opt(S) == {<<>>} \cup {<<x>> : x \in S}
(* prefix lengths tried: 0, 1, ..., BitV6 + PrefixSlack, then -1, ..., -PrefixSlack *)
PrefixAt(j) == IF j <= BitV6 + PrefixSlack THEN j ELSE BitV6 + PrefixSlack - j
RangeTexts == {[dash |-> TRUE, start |-> s, end |-> e] : s \in Texts, e \in Texts}
              \cup {[dash |-> FALSE, start |-> s, end |-> NoText] : s \in Texts}
Ints == (-1)..(Pow2(BitV6 + PrefixSlack))
Values == {IntVal(n) : n \in Ints} \cup {StrVal(t) : t \in Texts}
Addresses == {a.obj : a \in {b \in {IPAddress(ip, v, 1) : ip \in Values, v \in Versions} :
                                b.err = ""}}
Candidates == {[kind |-> "IPAddress", obj |-> a] : a \in Addresses}
              \cup {[kind |-> "raw", obj |-> [ip |-> ip, version |-> 0, oid |-> 0]] :
                        ip \in Values}
Slices == [start : Opt((-MaxIdx)..MaxIdx), stop : Opt((-MaxIdx)..MaxIdx),
           step : Opt((-MaxStep)..MaxStep)]
IntIndexes(self) == ((-MaxIdx)..MaxIdx)
                    \cup {len(self) - 1, len(self), -len(self), -len(self) - 1}
Indexes(self) == {[kind |-> "int", i |-> i, sl |-> NoSlice] : i \in IntIndexes(self)}
                 \cup {[kind |-> "slice", i |-> 0, sl |-> sl] : sl \in Slices}

Init ==
    /\ rng = NoRange
    /\ last = NoCall
    /\ its = [k \in Sites |-> NoIter]

(* r = IPNetwork(network, version) *)
New_IPNetwork ==
    /\ rng = NoRange
    /\ last = NoCall
    /\ \E j \in 0..(BitV6 + 2 * PrefixSlack), ip \in Texts, slash \in BOOLEAN,
          version \in Versions :
          LET network == [slash |-> slash, ip |-> ip,
                          cidr |-> IF slash THEN PrefixAt(j) ELSE 0]
              r == IPNetwork(network, version)
          IN  /\ rng' = r.obj
              /\ last' = [NoCall EXCEPT !.op = "IPNetwork", !.err = r.err,
                                        !.network = network, !.version = version]
    /\ UNCHANGED its

(* r = IPRange(range_) or r = IPRange(start=..., stop=...): the caller gives *)
(* the dash text or the keyword arguments, not both                         *)
New_IPRange ==
    /\ rng = NoRange
    /\ last = NoCall
    /\ \E range_ \in Opt(RangeTexts), start \in Opt(Texts), stop \in Opt(Texts),
          version \in Versions :
          /\ range_ # <<>> => (start = <<>> /\ stop = <<>>)
          /\ LET r == IPRange(range_, start, stop, version)
             IN  /\ rng' = r.obj
                 /\ last' = [NoCall EXCEPT !.op = "IPRange", !.err = r.err,
                                           !.range_ = range_, !.start = start,
                                           !.stop = stop, !.version = version]
    /\ UNCHANGED its

(* the caller takes the outcome of its last call *)
Return ==
    /\ last # NoCall
    /\ last' = NoCall
    /\ UNCHANGED <<rng, its>>

(* r.__len__() *)
Call_len ==
    /\ rng # NoRange
    /\ last = NoCall
    /\ last' = [NoCall EXCEPT !.op = "len", !.num = len(rng)]
    /\ UNCHANGED <<rng, its>>

(* ip in r *)
Call_contains ==
    /\ rng # NoRange
    /\ last = NoCall
    /\ \E ip \in Candidates :
          LET c == contains(rng, ip)
          IN  last' = [NoCall EXCEPT !.op = "contains", !.err = c.err, !.ip = ip,
                                     !.flag = c.flag]
    /\ UNCHANGED <<rng, its>>

(* r[index] *)
Call_getitem ==
    /\ rng # NoRange
    /\ last = NoCall
    /\ \E index \in Indexes(rng) :
          LET g == getitem(rng, index)
          IN  last' = [NoCall EXCEPT !.op = "getitem", !.err = g.err, !.index = index,
                                     !.items = g.items]
    /\ UNCHANGED <<rng, its>>

(* a = IPAddress(ip, version); str(a); int(a) *)
Call_IPAddress ==
    /\ last = NoCall
    /\ \E ip \in Values, version \in Versions :
          LET a == IPAddress(ip, version, 1)
              s == IPAddress_str(a.obj)
              n == IPAddress_int(a.obj)
          IN  last' = [NoCall EXCEPT
                         !.op = "IPAddress", !.err = a.err,
                         !.ip = [kind |-> "raw", obj |-> [ip |-> ip, version |-> 0, oid |-> 0]],
                         !.version = version,
                         !.items = IF a.err = "" THEN <<a.obj>> ELSE <<>>,
                         !.serr = IF a.err = "" THEN s.err ELSE "",
                         !.txt = IF a.err = "" THEN s.txt ELSE NoText,
                         !.ierr = IF a.err = "" THEN n.err ELSE "",
                         !.num = IF a.err = "" THEN n.val ELSE 0]
    /\ UNCHANGED <<rng, its>>

(* a = r[i]; b = IPAddress(ip, version) (or b = a when same); a == b *)
Call_eq ==
    /\ rng # NoRange
    /\ last = NoCall
    /\ \E i \in IntIndexes(rng), n \in {rng.lo, rng.hi, rng.lo + 1}, version \in Versions,
          same \in BOOLEAN :
          LET index == [kind |-> "int", i |-> i, sl |-> NoSlice]
              a == getitem(rng, index)
              b == IF same THEN [err |-> "", obj |-> a.items[1]]
                   ELSE IPAddress(IntVal(n), version, 2)
              err == IF a.err # "" THEN a.err ELSE b.err
          IN  last' = [NoCall EXCEPT
                         !.op = "eq", !.err = err, !.index = index, !.same = same,
                         !.version = version,
                         !.ip = [kind |-> "raw",
                                 obj |-> [ip |-> IntVal(n), version |-> 0, oid |-> 0]],
                         !.items = IF err = "" THEN a.items ELSE <<>>,
                         !.other = IF err = "" THEN b.obj ELSE NoAddress,
                         !.flag = IF err = "" THEN IPAddress_eq(a.items[1], b.obj)
                                  ELSE FALSE]
    /\ UNCHANGED <<rng, its>>

(* g = r.iter_() at call site k: a new generator, its body not yet started *)
Iter_new(k) ==
    /\ rng # NoRange
    /\ its' = [its EXCEPT ![k] = [NoIter EXCEPT !.pc = "created"]]
    /\ UNCHANGED <<rng, last>>

(* next(g): the generator body up to its next yield, break or exception *)
Iter_next(k) ==
    /\ its[k].pc \in {"created", "running"}
    /\ its' = [its EXCEPT ![k] = iter_(rng, its[k])]
    /\ UNCHANGED <<rng, last>>

Next ==
    \/ New_IPNetwork
    \/ New_IPRange
    \/ Return
    \/ Call_len
    \/ Call_contains
    \/ Call_getitem
    \/ Call_IPAddress
    \/ Call_eq

Spec == Init /\ [][Next]_vars

NextIter ==
    \/ New_IPNetwork
    \/ New_IPRange
    \/ Return
    \/ \E k \in Sites : Iter_new(k)
    \/ \E k \in Sites : Iter_next(k)

SpecIter == Init /\ [][NextIter]_vars

(***************************************************************************)
(* Properties                                                              *)
(***************************************************************************)
AddrInt(t) == Value(t.groups)
BitOf(version) == IF version = 4 THEN BitV4 ELSE BitV6
Resolved(version, ip) == IF version # 0 THEN version ELSE get_version(ip)
IsSliceCall == last.op = "getitem" /\ last.index.kind = "slice"
IsIntCall == last.op = "getitem" /\ last.index.kind = "int"
(* the indices Python selects: range over slice.indices(length) *)
Selection(self, sl) ==
    LET ind == slice_indices(sl, len(self))
    IN  range(ind.start, ind.stop, ind.step)
HasSelection == IsSliceCall /\ len(rng) >= 0 /\ last.index.sl.step # <<0>>
IntsOf(items) == [k \in 1..Len(items) |-> items[k].ip.num]
AreInts(items) == \A k \in 1..Len(items) : items[k].ip.form = "int"
ValidCidrCall ==
    /\ last.op = "IPNetwork"
    /\ last.network.slash
    /\ last.network.ip.fam = Resolved(last.version, StrVal(last.network.ip))

(* C1: a CIDR a/p with 0 <= p <= W is constructed, with lo the greatest     *)
(* multiple of 2^(W-p) not above a, hi = lo + 2^(W-p) - 1, length 2^(W-p)   *)
(* and lo <= a <= hi; p = W gives lo = hi = a and length 1.                 *)
C1_CidrExpansion ==
    (ValidCidrCall /\ 0 <= last.network.cidr
        /\ last.network.cidr <= BitOf(last.network.ip.fam)) =>
        LET W == BitOf(last.network.ip.fam)
            p == last.network.cidr
            a == AddrInt(last.network.ip)
            block == Pow2(W - p)
        IN  /\ last.err = ""
            /\ rng.cls = "IPNetwork"
            /\ rng.lo % block = 0
            /\ rng.lo <= a
            /\ a < rng.lo + block
            /\ rng.hi = rng.lo + block - 1
            /\ len(rng) = block
            /\ a <= rng.hi
            /\ (p = W => (rng.lo = a /\ rng.hi = a /\ len(rng) = 1))

C1_Witness ==
    /\ ValidCidrCall
    /\ last.err = ""
    /\ 0 < last.network.cidr
    /\ last.network.cidr < BitOf(last.network.ip.fam)
    /\ rng.lo < AddrInt(last.network.ip)
    /\ rng.version = 6

(* C2: every constructed Range has lo <= hi, and a span whose end is below  *)
(* its start fails on the dash path and on the (start, stop) path.          *)
C2_LoLeHi ==
    /\ rng # NoRange => rng.lo <= rng.hi
    /\ (last.op = "IPRange" /\ last.range_ # <<>> /\ last.range_[1].dash
          /\ last.range_[1].start.fam = last.range_[1].end.fam
          /\ AddrInt(last.range_[1].end) < AddrInt(last.range_[1].start))
       => last.err = "ValueError"
    /\ (last.op = "IPRange" /\ last.range_ = <<>> /\ last.start # <<>> /\ last.stop # <<>>
          /\ last.start[1].fam = last.stop[1].fam
          /\ AddrInt(last.stop[1]) < AddrInt(last.start[1]))
       => last.err = "ValueError"

(* C3: a prefix length outside [0, bitwidth] fails, and both bounds of a    *)
(* constructed CIDR Range lie in [0, 2^bitwidth - 1].                       *)
C3_PrefixInRange ==
    /\ (last.op = "IPNetwork" /\ last.network.slash
          /\ (last.network.cidr < 0
              \/ last.network.cidr > BitOf(Resolved(last.version, StrVal(last.network.ip)))))
       => last.err = "ValueError"
    /\ rng.cls = "IPNetwork" =>
          (0 <= rng.lo /\ rng.hi <= Pow2(BitOf(rng.version)) - 1)

(* C4: get(i) is the Address hi + i + 1 for -N <= i < 0, the Address lo + i *)
(* for 0 <= i < N, and fails with IndexError for every other i.             *)
C4_ScalarIndexing ==
    IsIntCall =>
        LET N == len(rng)
            i == last.index.i
        IN  IF -N <= i /\ i < 0
            THEN last.err = "" /\ Len(last.items) = 1
                 /\ last.items[1].ip = IntVal(rng.hi + i + 1)
                 /\ last.items[1].version = rng.version
            ELSE IF 0 <= i /\ i < N
            THEN last.err = "" /\ Len(last.items) = 1
                 /\ last.items[1].ip = IntVal(rng.lo + i)
                 /\ last.items[1].version = rng.version
            ELSE last.err = "IndexError"

(* C5: a slice whose Python selection is not empty returns the Addresses    *)
(* lo + k for the selected indices k, in that order.                        *)
C5_SliceSemantics ==
    (HasSelection /\ Selection(rng, last.index.sl) # <<>>) =>
        LET sel == Selection(rng, last.index.sl)
        IN  /\ last.err = ""
            /\ AreInts(last.items)
            /\ IntsOf(last.items) = [k \in 1..Len(sel) |-> rng.lo + sel[k]]

(* C6, as claimed: a slice whose Python selection is empty returns the      *)
(* single Address at lo, never an empty sequence.                           *)
C6_EmptyGivesLo ==
    (HasSelection /\ Selection(rng, last.index.sl) = <<>>) =>
        /\ last.err = ""
        /\ AreInts(last.items)
        /\ IntsOf(last.items) = <<rng.lo>>

(* C6, amended: with (start, stop, step) = slice.indices(length), a slice   *)
(* whose Python selection is empty takes the single-element branch when     *)
(* start + step < 0 or step > stop, returning the one Address at lo (whose  *)
(* construction raises NameError in a V6 Range), and returns the empty      *)
(* sequence in every other case.                                            *)
C6_EmptySlice ==
    (HasSelection /\ Selection(rng, last.index.sl) = <<>>) =>
        LET ind == slice_indices(last.index.sl, len(rng))
        IN  IF ind.start + ind.step < 0 \/ ind.step > ind.stop
            THEN IF rng.version = 4
                 THEN last.err = "" /\ AreInts(last.items)
                      /\ IntsOf(last.items) = <<rng.lo>>
                 ELSE last.err = "NameError"
            ELSE last.err = "" /\ last.items = <<>>

C6_Witness ==
    /\ HasSelection
    /\ Selection(rng, last.index.sl) = <<>>
    /\ len(rng) >= 3
    /\ rng.hi <= v4_MAX
    /\ last.err = ""
    /\ AreInts(last.items)
    /\ IntsOf(last.items) = <<rng.lo>>

(* C7: each generator yields lo, lo+1, ..., hi in ascending order, each in  *)
(* [lo, hi], independent of the other call site, and then terminates; a     *)
(* new generator starts from lo.                                            *)
C7_Iteration ==
    \A k \in Sites :
        LET g == its[k]
        IN  /\ g.pc # "raised"
            /\ g.pc = "created" => (g.out = <<>> /\ g.index = 0)
            /\ g.pc \in {"running", "done"} =>
                  /\ AreInts(g.out)
                  /\ \A j \in 1..Len(g.out) :
                        /\ g.out[j].ip.num = rng.lo + (j - 1)
                        /\ g.out[j].ip.num <= rng.hi
                        /\ g.out[j].version = rng.version
            /\ g.pc = "running" => Len(g.out) = g.index
            /\ g.pc = "done" =>
                  Len(g.out) = (IF len(rng) > 0 THEN len(rng) ELSE 0)

(* C8: an Address holding an integer within its version's range is          *)
(* constructed, renders as intToText(value, version) and has that integer;  *)
(* so is every Address that get or slice materialises.                      *)
C8_Rendering ==
    /\ (last.op = "IPAddress" /\ last.ip.obj.ip.form = "int"
          /\ 0 <= last.ip.obj.ip.num
          /\ last.ip.obj.ip.num
                <= Pow2(BitOf(Resolved(last.version, last.ip.obj.ip))) - 1) =>
          /\ last.err = ""
          /\ last.serr = ""
          /\ last.txt = to_addr(Resolved(last.version, last.ip.obj.ip),
                                last.ip.obj.ip.num).txt
          /\ last.ierr = ""
          /\ last.num = last.ip.obj.ip.num
    /\ last.op = "getitem" =>
          /\ last.err # "NameError"
          /\ \A k \in 1..Len(last.items) :
                (0 <= last.items[k].ip.num
                   /\ last.items[k].ip.num <= Pow2(BitOf(rng.version)) - 1) =>
                   /\ IPAddress_str(last.items[k]).err = ""
                   /\ IPAddress_int(last.items[k]) = Ok(last.items[k].ip.num)

(* C9: two Addresses are equal exactly when they have the same version and  *)
(* resolve to the same integer, also when constructed separately.           *)
C9_Equality ==
    (last.op = "eq" /\ last.err = "") =>
        (last.flag <=>
            (/\ last.items[1].version = last.other.version
             /\ IPAddress_int(last.items[1]) = IPAddress_int(last.other)))

(* C10: contains(x) is lo <= x <= hi, which holds exactly when some valid   *)
(* index i has get(i) resolving to x and exactly when a completed           *)
(* iteration yielded x.                                                     *)
C10_Membership ==
    rng # NoRange =>
        \A x \in Ints :
            LET c == contains(rng, [kind |-> "raw",
                                    obj |-> [ip |-> IntVal(x), version |-> 0, oid |-> 0]])
                N == len(rng)
                got(i) == getitem(rng, [kind |-> "int", i |-> i, sl |-> NoSlice])
            IN  /\ c.err = ""
                /\ c.flag <=> (rng.lo <= x /\ x <= rng.hi)
                /\ c.flag <=> (\E i \in (-N)..(N - 1) :
                                  got(i).err = "" /\ got(i).items[1].ip = IntVal(x))
                /\ \A k \in Sites :
                      its[k].pc \in {"done", "raised"} =>
                          (c.flag <=> (\E j \in 1..Len(its[k].out) :
                                          its[k].out[j].ip = IntVal(x)))

====
